---- MODULE Spec2Model ----
(***************************************************************************)
(* Model of src/encryption/rsa.c: the s_rsa key object, its validity       *)
(* flags, the key acquisition paths and the encode / sign / verify calls.  *)
(*                                                                         *)
(* Sizes are scaled down: a key is identified by the byte length of its    *)
(* modulus (len) and an identity (id); its DER public encoding is one      *)
(* header byte giving the total length followed by len body bytes.         *)
(* The OpenSSL primitives are modelled by what rsa.c relies on: their      *)
(* return values, and what they do to the EVP_PKEY they are handed.        *)
(***************************************************************************)
EXTENDS Integers, Sequences, FiniteSets, TLC

\* ---------------------------------------------------------------- bounds
\* largest modulus length (bytes) of a key of the model
MaxKeyLen == 3
\* number of distinct keys of one length
NumIds == 1
\* largest caller buffer capacity tried by rsaGetDER
MaxCap == 5

\* ------------------------------------------------------- program constants
\* rsa.h: minimum size of a DER encoded public key (scaled)
RSA_MINSIZE == 2
\* rsa.h: size of the staging buffers for key material (scaled)
RSA_MAXSIZE == 4
\* crypto.c: length of a SHA-256 digest (scaled)
SHA256_LEN == 2

\* ------------------------------------------------------------ key material
\* rsa->key == NULL (an unchecked EVP_PKEY_new() that failed)
NullKey == [len |-> -1, id |-> 0, kind |-> "null"]
\* an EVP_PKEY that holds no key (as EVP_PKEY_new() returns it)
NoKey == [len |-> 0, id |-> 0, kind |-> "none"]
\* kind: "pub" public part only, "priv" consistent private key,
\*       "badpriv" private part that does not match the public part
KeyKinds == {"pub", "priv", "badpriv"}
\* the keys of length len: NumIds of them at the shortest length whose
\* encoding rsaLoadDER and rsaGetFingerprint take, one at the others
KeyIds(len) == IF len = RSA_MINSIZE THEN 1..NumIds ELSE {1}
Keys == {k \in [len : 1..MaxKeyLen, id : 1..NumIds, kind : KeyKinds] : k.id \in KeyIds(k.len)}
Material == {NullKey, NoKey} \cup Keys

HasKey(k) == k.kind \in KeyKinds
\* the public part of the key held in k
Pub(k) == [len |-> k.len, id |-> k.id]
NoPub == [len |-> 0, id |-> 0]

\* ------------------------------------------------------------- encodings
\* i2d_PublicKey body: header byte = total size, then len bytes of the key
DERBytes(k) == <<k.len + 1>> \o [i \in 1..k.len |-> k.id]

\* d2i_RSAPublicKey on the first n bytes of buf: the decoded key, or NoKey.
\* Bytes after the encoded structure are ignored.
DERParse(buf, n) ==
    IF /\ n >= 2
       /\ n <= Len(buf)
       /\ buf[1] >= 2
       /\ buf[1] <= n
       /\ buf[2] \in 1..NumIds
       /\ \A i \in 2..buf[1] : buf[i] = buf[2]
    THEN [len |-> buf[1] - 1, id |-> buf[2], kind |-> "pub"]
    ELSE NoKey

\* PEM container: BEGIN marker naming the content, the DER body, for a
\* private key one byte for the private part, END marker
PEM_PUBLIC == 100
PEM_PRIVATE == 101
PEM_END == 102
PrivByte(k) == IF k.kind = "priv" THEN 1 ELSE 2
PEMBytes(k) ==
    IF k.kind = "pub"
    THEN <<PEM_PUBLIC>> \o DERBytes(k) \o <<PEM_END>>
    ELSE <<PEM_PRIVATE>> \o DERBytes(k) \o <<PrivByte(k), PEM_END>>

\* PEM_read_bio_RSA_PUBKEY on the first n bytes of buf
PEMParsePublic(buf, n) ==
    IF n >= 1 /\ n <= Len(buf) /\ buf[1] = PEM_PUBLIC
    THEN LET body == SubSeq(buf, 2, n)
             k == DERParse(body, Len(body))
         IN  IF HasKey(k) /\ Len(body) >= k.len + 2 /\ body[k.len + 2] = PEM_END
             THEN k
             ELSE NoKey
    ELSE NoKey

\* PEM_read_bio_RSAPrivateKey / PEM_read_bio_PrivateKey on the first n bytes
PEMParsePrivate(buf, n) ==
    IF n >= 1 /\ n <= Len(buf) /\ buf[1] = PEM_PRIVATE
    THEN LET body == SubSeq(buf, 2, n)
             k == DERParse(body, Len(body))
         IN  IF /\ HasKey(k)
                /\ Len(body) >= k.len + 3
                /\ body[k.len + 2] \in {1, 2}
                /\ body[k.len + 3] = PEM_END
             THEN [k EXCEPT !.kind = IF body[k.len + 2] = 1 THEN "priv" ELSE "badpriv"]
             ELSE NoKey
    ELSE NoKey

\* RSA_check_key on a decoded or generated RSA structure
RSA_check_key(k) == IF k.kind = "priv" THEN 1 ELSE 0

\* EVP_PKEY_size
EVP_PKEY_size(k) == IF HasKey(k) THEN k.len ELSE 0

\* i2d_PublicKey(key, NULL): the encoded size, negative on error
i2d_PublicKey(k, ok) == IF HasKey(k) /\ ok THEN Len(DERBytes(k)) ELSE -1


\* ----------------------------------------------------------- caller inputs
\* a path that cannot be opened / a NULL buffer pointer
NoFile == <<-1>>
NullBuf == <<-2>>
PubKeys == {k \in Keys : k.kind = "pub"}
\* contents of key files: every private key, public keys of the shortest
\* length, or text that is no PEM key
Files ==
    {NoFile, <<PEM_PRIVATE, PEM_END>>}
        \cup {PEMBytes(k) : k \in {x \in Keys : x.kind # "pub" \/ x.len = 1}}
\* the files with which a failing EVP_PKEY_new is tried
ShortFiles ==
    {NoFile, <<PEM_PRIVATE, PEM_END>>} \cup {PEMBytes(k) : k \in {x \in Keys : x.len = 1}}
\* buffers handed to rsaLoadDER: NULL, encoded keys, encoded keys followed by
\* other bytes, bytes that are no encoding
DERBufs ==
    {NullBuf} \cup {DERBytes(k) : k \in PubKeys}
        \cup {DERBytes(k) \o <<0>> : k \in {x \in PubKeys : x.id = 1}} \cup {<<9, 9, 9>>}
\* declared lengths tried for a DER buffer: none, and every length from
\* RSA_MINSIZE to the whole buffer; where bytes follow the encoding, the
\* whole buffer only (a shorter length is a case of the encoding alone)
DERLens(buf) ==
    IF buf = NullBuf
    THEN {0, RSA_MINSIZE + 1}
    ELSE IF buf[1] < Len(buf)
    THEN {Len(buf)}
    ELSE {0} \cup (RSA_MINSIZE..Len(buf))
\* buffers handed to rsaLoadPEM: NULL, text that is no key, every public
\* key, and private keys of the shortest length
PubPEMBufs ==
    {NullBuf, <<PEM_PUBLIC, PEM_END>>}
        \cup {PEMBytes(k) : k \in {x \in Keys : x.kind = "pub" \/ x.len = 1}}
\* buffers handed to rsaLoadPrivatePEM: NULL, text that is no key, every
\* private key, and public keys of the shortest length
PrivPEMBufs ==
    {NullBuf, <<PEM_PRIVATE, PEM_END>>}
        \cup {PEMBytes(k) : k \in {x \in Keys : x.kind # "pub" \/ x.len = 1}}
\* the PEM buffers with which truncation and allocation failures are tried:
\* those no longer than the shortest private key
ShortPEM(buf) == Len(buf) <= Len(PEMBytes([len |-> 1, id |-> 1, kind |-> "priv"]))
\* declared lengths tried for a PEM buffer: exact, one short for the short
\* buffers, and none for the text that is no key
PEMLens(buf) ==
    {Len(buf)}
        \cup (IF ShortPEM(buf) THEN {Len(buf) - 1} ELSE {})
        \cup (IF buf \in {<<PEM_PUBLIC, PEM_END>>, <<PEM_PRIVATE, PEM_END>>} THEN {0} ELSE {})
Messages == {1, 2}
\* signatures: the signature of message msg under the key pair pub, or bytes
\* that are no signature of anything
BadSig == [pub |-> NoPub, msg |-> 0]
Signatures == {BadSig} \cup [pub : {Pub(k) : k \in Keys}, msg : Messages]
\* the signatures tried on an object holding k: made with k, made with the
\* shortest key pair, or no signature
SignaturesFor(k) ==
    {sig \in Signatures : sig = BadSig \/ sig.pub = Pub(k) \/ sig.pub = [len |-> 1, id |-> 1]}
\* outcomes of undefined behaviour inside the library (NULL dereference)
UB == {"crash", "error"}
\* the outcomes to draw: both where the call runs into it, one otherwise
UBIf(hit) == IF hit THEN UB ELSE {"error"}
\* the failures to inject: any where the call would otherwise succeed
FailIf(would, failures) == IF would THEN failures ELSE {"none"}
\* the i2d_PublicKey call of rsaGetDER that fails, if any: the size query
\* or the encoding
EncodeFailures == {"none", "size", "encode"}

\* -------------------------------------------------------------- the object
VARIABLES
    rsa,        \* struct s_rsa: isvalid, isprivate, key (what the EVP_PKEY
                \* holds), the state of the handles bn, md, kh (key), and
                \* ctx (the data the digest context rsa->md has taken in)
    phase,      \* "Uninitialized", "Created", "Failed", "Destroyed", "Crashed"
    last,       \* the last call: operation, arguments, return value
    acq,        \* public key of the most recent successful acquisition
    genFailed,  \* rsaGenerate failed and no acquisition succeeded since
    rt          \* outcome of the round trip just made, if one was

vars == <<rsa, phase, last, acq, genFailed, rt>>

Flags(r) == [v |-> r.isvalid, p |-> r.isprivate]

\* record of a call: what was called on which flags (pre), its size argument
\* (arg), whether its buffer or path was unusable (nul), whether its input
\* decodes or, for an encoder, its primitives succeed (good), whether the
\* decoder was invoked (dec), and what it returned (ret)
\* leak: the objects the call allocated or replaced and did not release
\* chk: the key read or generated is one RSA_check_key passes
Call(op, r, ret, arg, dec, nul, good) ==
    [op |-> op, pre |-> Flags(r), ret |-> ret, arg |-> arg, dec |-> dec, nul |-> nul,
     good |-> good, leak |-> {}, chk |-> FALSE]

NoCall == [op |-> "none", pre |-> [v |-> 0, p |-> 0], ret |-> 0, arg |-> 0,
           dec |-> FALSE, nul |-> FALSE, good |-> FALSE, leak |-> {}, chk |-> FALSE]

\* result of a handler: the object afterwards, the return value, whether the
\* process was killed inside the call, whether the decoder (or, in rsaSign,
\* a digest primitive) was invoked, what the call left unreleased, and what
\* it wrote to the caller's buffer
Res(r, ret) ==
    [rsa |-> r, ret |-> ret, crash |-> FALSE, dec |-> FALSE, leak |-> {}, out |-> <<>>]
Crash(r) ==
    [rsa |-> r, ret |-> 0, crash |-> TRUE, dec |-> FALSE, leak |-> {}, out |-> <<>>]
\* the same result, with objects left unreleased
Leaking(res, objs) == [res EXCEPT !.leak = objs]

\* rsaIsValid / rsaIsPrivate
rsaIsValid(r) == r.isvalid
rsaIsPrivate(r) == r.isprivate

\* rsaReset as it would be if it also emptied the EVP_PKEY
rsaReset_emptiesKey(r) ==
    [r EXCEPT !.isvalid = 0, !.isprivate = 0,
              !.key = IF r.key = NullKey THEN NullKey ELSE NoKey]

\* rsaReset
rsaReset(r) == [r EXCEPT !.isvalid = 0, !.isprivate = 0]


\* ------------------------------------------------------------- acquisition
\* rsaImportKey. allocOk: EVP_PKEY_new() returned an object. The old
\* EVP_PKEY is dropped unreleased. When the file holds no private key,
\* rsa->key stays empty, EVP_PKEY_get1_RSA yields NULL and RSA_check_key
\* dereferences it (ub).
\* The reference EVP_PKEY_get1_RSA takes on the RSA is never given back.
rsaImportKey(r, file, allocOk, ub) ==
    LET r1 == [r EXCEPT !.key = IF allocOk THEN NoKey ELSE NullKey,
                        !.kh = IF allocOk THEN "live" ELSE "null"]
        parsed == PEMParsePrivate(file, Len(file))
        r2 == IF HasKey(parsed) THEN [r1 EXCEPT !.key = parsed, !.kh = "live"] ELSE r1
        old == IF r.kh = "live" THEN {"EVP_PKEY"} ELSE {}
    IN  IF file = NoFile
        THEN Leaking(Res(r1, 0), old)
        ELSE IF ~HasKey(r2.key)
        THEN IF ub = "crash" THEN Crash(r2) ELSE Leaking(Res(r2, 0), old)
        ELSE IF RSA_check_key(r2.key) # 1
        THEN Leaking(Res(r2, 0), old \cup {"RSA"})
        ELSE Leaking(Res([r2 EXCEPT !.isvalid = 1, !.isprivate = 1], 1),
                     old \cup {"RSA"})

\* RSA_size of a key of key_size bits
RSA_bytes(key_size) == (key_size + 7) \div 8

\* key sizes asked of rsaGenerate, in bits
KeySizes == {-1, 0} \cup {8 * l : l \in 1..MaxKeyLen}
\* the step of rsaGenerate that fails, if any
GenFailures == {"none", "RSA_new", "BN_set_word", "RSA_generate_key_ex", "RSA_check_key"}

\* rsaGenerate. id: which key RSA_generate_key_ex drew. EVP_PKEY_assign_RSA
\* fails on a NULL rsa->key; otherwise it replaces the key held. A failure
\* after RSA_new returns without releasing the RSA.
rsaGenerate(r, key_size, id, fail) ==
    LET r0 == [r EXCEPT !.isvalid = 0]
        rsakey == [len |-> RSA_bytes(key_size), id |-> id, kind |-> "priv"]
    IN  IF key_size <= 0
        THEN Res(r0, 0)
        ELSE IF fail = "RSA_new"
        THEN Res(r0, 0)
        ELSE IF fail # "none"
        THEN Leaking(Res(r0, 0), {"RSA"})
        ELSE IF RSA_check_key(rsakey) # 1
        THEN Leaking(Res(r0, 0), {"RSA"})
        ELSE IF r0.key = NullKey
        THEN Leaking(Res(r0, 0), {"RSA"})
        ELSE Res([r0 EXCEPT !.key = rsakey, !.isvalid = 1, !.isprivate = 1], 1)

\* rsaLoadDER as it would be without the line that clears isprivate
rsaLoadDER_keepsPrivate(r, pubkey, pubkey_size) ==
    LET r0 == [r EXCEPT !.isvalid = 0]
        d == DERParse(pubkey, pubkey_size)
        r1 == IF r0.key = NullKey THEN r0 ELSE [r0 EXCEPT !.key = d]
    IN  IF (pubkey_size > RSA_MINSIZE) /\ (pubkey # NullBuf)
        THEN IF HasKey(d)
             THEN [Res([r1 EXCEPT !.isvalid = 1], 1) EXCEPT
                       !.dec = TRUE,
                       !.leak = IF r0.key = NullKey THEN {"EVP_PKEY"} ELSE {}]
             ELSE [Res(r1, 0) EXCEPT !.dec = TRUE]
        ELSE Res(r0, 0)

\* rsaLoadDER as it would be with >= in the test against RSA_MINSIZE
rsaLoadDER_minInclusive(r, pubkey, pubkey_size) ==
    LET r0 == [r EXCEPT !.isvalid = 0]
        d == DERParse(pubkey, pubkey_size)
        r1 == IF r0.key = NullKey THEN r0 ELSE [r0 EXCEPT !.key = d]
    IN  IF (pubkey_size >= RSA_MINSIZE) /\ (pubkey # NullBuf)
        THEN IF HasKey(d)
             THEN [Res([r1 EXCEPT !.isvalid = 1, !.isprivate = 0], 1) EXCEPT
                       !.dec = TRUE,
                       !.leak = IF r0.key = NullKey THEN {"EVP_PKEY"} ELSE {}]
             ELSE [Res(r1, 0) EXCEPT !.dec = TRUE]
        ELSE Res(r0, 0)

\* rsaLoadDER as it would be with an upper bound RSA_MAXSIZE on the length
rsaLoadDER_upperBound(r, pubkey, pubkey_size) ==
    LET r0 == [r EXCEPT !.isvalid = 0]
        d == DERParse(pubkey, pubkey_size)
        r1 == IF r0.key = NullKey THEN r0 ELSE [r0 EXCEPT !.key = d]
    IN  IF (pubkey_size > RSA_MINSIZE) /\ (pubkey_size < RSA_MAXSIZE) /\ (pubkey # NullBuf)
        THEN IF HasKey(d)
             THEN [Res([r1 EXCEPT !.isvalid = 1, !.isprivate = 0], 1) EXCEPT
                       !.dec = TRUE,
                       !.leak = IF r0.key = NullKey THEN {"EVP_PKEY"} ELSE {}]
             ELSE [Res(r1, 0) EXCEPT !.dec = TRUE]
        ELSE Res(r0, 0)

\* rsaLoadDER. d2i_PublicKey decodes into the EVP_PKEY it is handed: the key
\* held before is dropped first, whether or not the bytes decode. Handed a
\* NULL rsa->key it returns a new EVP_PKEY in the local d2ipkey only, which
\* nothing releases.
rsaLoadDER(r, pubkey, pubkey_size) ==
    LET r0 == [r EXCEPT !.isvalid = 0]
        d == DERParse(pubkey, pubkey_size)
        r1 == IF r0.key = NullKey THEN r0 ELSE [r0 EXCEPT !.key = d]
    IN  IF (pubkey_size > RSA_MINSIZE) /\ (pubkey # NullBuf)
        THEN IF HasKey(d)
             THEN [Res([r1 EXCEPT !.isvalid = 1, !.isprivate = 0], 1) EXCEPT
                       !.dec = TRUE,
                       !.leak = IF r0.key = NullKey THEN {"EVP_PKEY"} ELSE {}]
             ELSE [Res(r1, 0) EXCEPT !.dec = TRUE]
        ELSE Res(r0, 0)

\* the allocation of rsaLoadPEM / rsaLoadPrivatePEM that fails, if any
PEMFailures == {"none", "BIO_new_mem_buf", "RSA_new"}

\* EVP_PKEY_assign_RSA(rsa->key, rsakey), its result ignored by the caller
\* (on a NULL rsa->key the RSA stays with the caller, who drops it)
EVP_PKEY_assign_RSA(r, rsakey) ==
    IF r.key = NullKey THEN r ELSE [r EXCEPT !.key = rsakey]

\* rsaLoadPEM
rsaLoadPEM(r, pubkey, pubkey_size, fail) ==
    LET r0 == [r EXCEPT !.isvalid = 0]
        rsakey == PEMParsePublic(pubkey, pubkey_size)
    IN  IF (pubkey_size > 0) /\ (pubkey # NullBuf)
        THEN IF fail # "none"
             THEN Res(r0, 0)
             ELSE IF HasKey(rsakey)
             THEN [Res([EVP_PKEY_assign_RSA(r0, rsakey) EXCEPT
                            !.isvalid = 1, !.isprivate = 0], 1) EXCEPT
                       !.dec = TRUE,
                       !.leak = IF r0.key = NullKey THEN {"RSA"} ELSE {}]
             ELSE [Res(r0, 0) EXCEPT !.dec = TRUE]
        ELSE Res(r0, 0)

\* rsaLoadPrivatePEM as it would be without the call of RSA_check_key
rsaLoadPrivatePEM_noCheck(r, privkey, privkey_size, fail) ==
    LET r0 == [r EXCEPT !.isvalid = 0]
        rsakey == PEMParsePrivate(privkey, privkey_size)
    IN  IF (privkey_size > 0) /\ (privkey # NullBuf)
        THEN IF fail # "none"
             THEN Res(r0, 0)
             ELSE IF HasKey(rsakey)
             THEN [Res([EVP_PKEY_assign_RSA(r0, rsakey) EXCEPT
                            !.isvalid = 1, !.isprivate = 1], 1) EXCEPT
                       !.dec = TRUE,
                       !.leak = IF r0.key = NullKey THEN {"RSA"} ELSE {}]
             ELSE [Res(r0, 0) EXCEPT !.dec = TRUE]
        ELSE Res(r0, 0)

\* rsaLoadPrivatePEM
rsaLoadPrivatePEM(r, privkey, privkey_size, fail) ==
    LET r0 == [r EXCEPT !.isvalid = 0]
        rsakey == PEMParsePrivate(privkey, privkey_size)
    IN  IF (privkey_size > 0) /\ (privkey # NullBuf)
        THEN IF fail # "none"
             THEN Res(r0, 0)
             ELSE IF HasKey(rsakey)
             THEN IF RSA_check_key(rsakey) = 1
                  THEN [Res([EVP_PKEY_assign_RSA(r0, rsakey) EXCEPT
                                 !.isvalid = 1, !.isprivate = 1], 1) EXCEPT
                            !.dec = TRUE,
                            !.leak = IF r0.key = NullKey THEN {"RSA"} ELSE {}]
                  ELSE [Res(r0, 0) EXCEPT !.dec = TRUE]
             ELSE [Res(r0, 0) EXCEPT !.dec = TRUE]
        ELSE Res(r0, 0)


\* ----------------------------------------------------------------- queries
\* rsaGetDERSize. ok: the encoder's size query succeeds. i2d_PublicKey
\* dereferences rsa->key (ub when it is NULL).
rsaGetDERSize(r, ok, ub) ==
    LET len == i2d_PublicKey(r.key, ok)
    IN  IF r.key = NullKey
        THEN IF ub = "crash" THEN Crash(r) ELSE Res(r, 0)
        ELSE IF len > 0 THEN Res(r, len) ELSE Res(r, 0)

\* rsaGetDER as it would be with <= in the test against buf_size
rsaGetDER_capInclusive(r, buf_size, ok1, ok2, ub) ==
    LET size == rsaGetDERSize(r, ok1, ub)
        ptlen == size.ret
        len == i2d_PublicKey(r.key, ok2)
    IN  IF size.crash
        THEN size
        ELSE IF (ptlen > RSA_MINSIZE) /\ (ptlen <= buf_size)
        THEN IF len > 0 THEN [Res(r, len) EXCEPT !.out = DERBytes(r.key)] ELSE Res(r, 0)
        ELSE Res(r, 0)

\* rsaGetDER as it would be if it marked the object invalid when it
\* returns 0
rsaGetDER_invalidatesOnFailure(r, buf_size, ok1, ok2, ub) ==
    LET size == rsaGetDERSize(r, ok1, ub)
        ptlen == size.ret
        len == i2d_PublicKey(r.key, ok2)
        r0 == [r EXCEPT !.isvalid = 0]
    IN  IF size.crash
        THEN size
        ELSE IF (ptlen > RSA_MINSIZE) /\ (ptlen < buf_size)
        THEN IF len > 0 THEN [Res(r, len) EXCEPT !.out = DERBytes(r.key)] ELSE Res(r0, 0)
        ELSE Res(r0, 0)

\* rsaGetDER. ok1, ok2: the size query and the encoding succeed.
rsaGetDER(r, buf_size, ok1, ok2, ub) ==
    LET size == rsaGetDERSize(r, ok1, ub)
        ptlen == size.ret
        len == i2d_PublicKey(r.key, ok2)
    IN  IF size.crash
        THEN size
        ELSE IF (ptlen > RSA_MINSIZE) /\ (ptlen < buf_size)
        THEN IF len > 0 THEN [Res(r, len) EXCEPT !.out = DERBytes(r.key)] ELSE Res(r, 0)
        ELSE Res(r, 0)

\* cryptoCalculateSHA256: the digest length, 0 when the buffer is too small
cryptoCalculateSHA256(buf_size, in_len) ==
    IF buf_size >= SHA256_LEN /\ in_len > 0 THEN SHA256_LEN ELSE 0

\* the digest cryptoCalculateSHA256 writes: SHA256_LEN bytes that depend on
\* every byte of the input and on its length
RECURSIVE SumBytes(_)
SumBytes(bytes) == IF bytes = <<>> THEN 0 ELSE Head(bytes) + SumBytes(Tail(bytes))
SHA256(bytes) == [i \in 1..SHA256_LEN |-> (SumBytes(bytes) + i * Len(bytes)) % 16]

\* rsaGetFingerprint
rsaGetFingerprint(r, buf_size, ok1, ok2, ub) ==
    LET der == rsaGetDER(r, RSA_MAXSIZE, ok1, ok2, ub)
        dersize == der.ret
        len == cryptoCalculateSHA256(buf_size, dersize)
    IN  IF der.crash
        THEN der
        ELSE IF dersize > 0
        THEN IF len > 0 THEN [Res(r, len) EXCEPT !.out = SHA256(der.out)] ELSE Res(r, 0)
        ELSE Res(r, 0)

\* rsaSignSize
rsaSignSize(r) == EVP_PKEY_size(r.key)

\* EVP_SignFinal: the signature length, 0 on failure. Without a private part
\* the RSA private operation has no exponent to use (ub).
EVP_SignFinal(k, ub) ==
    IF k.kind \in {"priv", "badpriv"}
    THEN [len |-> k.len, crash |-> FALSE]
    ELSE IF k.kind = "pub"
    THEN [len |-> 0, crash |-> (ub = "crash")]
    ELSE [len |-> 0, crash |-> FALSE]

\* the digest context: EVP_DigestInit_ex empties it, EVP_DigestUpdate mixes
\* the message into what it holds (the value stands for the SHA-256 state)
EVP_DigestInit_ex == 0
EVP_DigestUpdate(ctx, msg) == (2 * ctx + msg) % (Cardinality(Messages) + 1)

\* the signature EVP_SignFinal writes over the digest msg
SignatureOf(k, msg) ==
    IF k.kind = "priv" THEN [pub |-> Pub(k), msg |-> msg] ELSE BadSig

\* the step of rsaSign / rsaVerify that fails, if any
SignFailures == {"none", "EVP_SignInit_ex", "EVP_SignUpdate"}
VerifyFailures == {"none", "EVP_VerifyInit_ex", "EVP_VerifyUpdate"}

\* rsaSign as it would be without the test of sign_len against sign_maxlen
rsaSign_noCapacityCheck(r, sign_len, msg, fail, ub) ==
    LET r1 == [r EXCEPT !.ctx = EVP_DigestInit_ex]
        r2 == [r1 EXCEPT !.ctx = EVP_DigestUpdate(r1.ctx, msg)]
        fin == EVP_SignFinal(r2.key, ub)
    IN  IF fail = "EVP_SignInit_ex"
        THEN [Res(r, 0) EXCEPT !.dec = TRUE]
        ELSE IF fail = "EVP_SignUpdate"
        THEN [Res(r1, 0) EXCEPT !.dec = TRUE]
        ELSE IF fin.crash
        THEN Crash(r2)
        ELSE IF ~(fin.len > 0)
        THEN [Res(r2, 0) EXCEPT !.dec = TRUE]
        ELSE [Res(r2, fin.len) EXCEPT !.dec = TRUE, !.out = SignatureOf(r2.key, r2.ctx)]

\* rsaSign. dec: a digest or signature primitive was invoked. out: the
\* signature written to sign_buf.
rsaSign(r, sign_len, msg, fail, ub) ==
    LET sign_maxlen == rsaSignSize(r)
        r1 == [r EXCEPT !.ctx = EVP_DigestInit_ex]
        r2 == [r1 EXCEPT !.ctx = EVP_DigestUpdate(r1.ctx, msg)]
        fin == EVP_SignFinal(r2.key, ub)
    IN  IF sign_len < sign_maxlen
        THEN Res(r, 0)
        ELSE IF fail = "EVP_SignInit_ex"
        THEN [Res(r, 0) EXCEPT !.dec = TRUE]
        ELSE IF fail = "EVP_SignUpdate"
        THEN [Res(r1, 0) EXCEPT !.dec = TRUE]
        ELSE IF fin.crash
        THEN Crash(r2)
        ELSE IF ~(fin.len > 0)
        THEN [Res(r2, 0) EXCEPT !.dec = TRUE]
        ELSE [Res(r2, fin.len) EXCEPT !.dec = TRUE, !.out = SignatureOf(r2.key, r2.ctx)]

\* EVP_VerifyFinal: 1 for a correct signature, 0 for a wrong one, -1 when the
\* verification could not be carried out (no usable key in the EVP_PKEY)
EVP_VerifyFinal(k, sig, msg) ==
    IF ~HasKey(k)
    THEN -1
    ELSE IF sig = [pub |-> Pub(k), msg |-> msg] THEN 1 ELSE 0

\* rsaVerify as it would be without the call of EVP_VerifyInit_ex
rsaVerify_noInit(r, sig, msg, fail) ==
    LET r1 == r
        r2 == [r1 EXCEPT !.ctx = EVP_DigestUpdate(r1.ctx, msg)]
    IN  IF fail = "EVP_VerifyInit_ex"
        THEN Res(r, 0)
        ELSE IF fail = "EVP_VerifyUpdate"
        THEN Res(r1, 0)
        ELSE IF EVP_VerifyFinal(r2.key, sig, r2.ctx) = 0
        THEN Res(r2, 0)
        ELSE Res(r2, 1)

\* rsaVerify
rsaVerify(r, sig, msg, fail) ==
    LET r1 == [r EXCEPT !.ctx = EVP_DigestInit_ex]
        r2 == [r1 EXCEPT !.ctx = EVP_DigestUpdate(r1.ctx, msg)]
    IN  IF fail = "EVP_VerifyInit_ex"
        THEN Res(r, 0)
        ELSE IF fail = "EVP_VerifyUpdate"
        THEN Res(r1, 0)
        ELSE IF EVP_VerifyFinal(r2.key, sig, r2.ctx) = 0
        THEN Res(r2, 0)
        ELSE Res(r2, 1)

\* the call of rsaExportKey that fails, if any
ExportFailures == {"none", "BIO_new_file", "PEM_write_bio_PrivateKey"}

\* rsaExportKey. openOk: BIO_new_file opened the path; writeOk: the PEM
\* encoder and the write succeed. A NULL stream or a key without private
\* part is handed to PEM_write_bio_PrivateKey unchecked (ub). The return on
\* failure comes before BIO_free.
rsaExportKey(r, openOk, writeOk, ub) ==
    LET out == IF openOk THEN {"BIO"} ELSE {}
    IN  IF ~openOk \/ r.key.kind \notin {"priv", "badpriv"}
        THEN IF ub = "crash" THEN Crash(r) ELSE Leaking(Res(r, 0), out)
        ELSE IF ~writeOk
        THEN Leaking(Res(r, 0), out)
        ELSE Res(r, 1)

\* --------------------------------------------------------------- lifecycle
\* the allocation of rsaCreate that fails, if any
CreateFailures == {"none", "BN_new", "EVP_PKEY_new", "EVP_MD_CTX_create"}

\* rsaCreate. When EVP_PKEY_new or EVP_MD_CTX_create fails, the BIGNUM
\* stays allocated.
rsaCreate(r, fail) ==
    IF fail = "BN_new"
    THEN Res([r EXCEPT !.bn = "null"], 0)
    ELSE IF fail = "EVP_PKEY_new"
    THEN Leaking(Res([r EXCEPT !.bn = "live", !.key = NullKey, !.kh = "null"], 0),
                 {"BIGNUM"})
    ELSE IF fail = "EVP_MD_CTX_create"
    THEN Leaking(Res([r EXCEPT !.bn = "live", !.key = NoKey, !.kh = "freed",
                               !.md = "null"], 0),
                 {"BIGNUM"})
    ELSE Res(rsaReset([r EXCEPT !.bn = "live", !.key = NoKey, !.kh = "live",
                                !.md = "live", !.ctx = EVP_DigestInit_ex]), 1)

\* what releasing a handle does to it: EVP_MD_CTX_destroy, EVP_PKEY_free
\* and BN_free ignore NULL; a second release of the same object is "twice"
Release(h) == IF h = "live" THEN "freed" ELSE IF h = "freed" THEN "twice" ELSE h

\* rsaDestroy
rsaDestroy(r) ==
    [rsaReset(r) EXCEPT !.md = Release(r.md), !.kh = Release(r.kh), !.bn = Release(r.bn)]


\* ----------------------------------------------------------------- actions
\* no round trip was made
NoRT == [op |-> "none"]
\* a second object, just created, as a peer holds one for each public key
\* it is sent
Peer ==
    rsaCreate([isvalid |-> 0, isprivate |-> 0, key |-> NoKey, bn |-> "unset",
               md |-> "unset", kh |-> "unset", ctx |-> EVP_DigestInit_ex], "none").rsa

\* the object before rsaCreate: the fields hold whatever the memory held
Init ==
    /\ rsa \in [isvalid : {0, 1}, isprivate : {0, 1}, key : {NoKey},
                bn : {"unset"}, md : {"unset"}, kh : {"unset"},
                ctx : {EVP_DigestInit_ex}]
    /\ phase = "Uninitialized"
    /\ last = NoCall
    /\ acq = NoPub
    /\ genFailed = FALSE
    /\ rt = NoRT

\* a call that is no acquisition returns (or kills the process)
Return(res, call) ==
    /\ rsa' = res.rsa
    /\ phase' = IF res.crash THEN "Crashed" ELSE phase
    /\ last' = IF res.crash THEN [call EXCEPT !.op = "Crash"]
                            ELSE [call EXCEPT !.leak = res.leak]
    /\ rt' = NoRT
    /\ UNCHANGED <<acq, genFailed>>

\* an acquisition returns: got is the key it read or generated
Acquired(res, call, got) ==
    /\ rsa' = res.rsa
    /\ phase' = IF res.crash THEN "Crashed" ELSE phase
    /\ last' = IF res.crash THEN [call EXCEPT !.op = "Crash"]
                            ELSE [call EXCEPT !.leak = res.leak]
    /\ acq' = IF ~res.crash /\ res.ret = 1 THEN Pub(got) ELSE acq
    /\ genFailed' = IF res.crash
                    THEN genFailed
                    ELSE IF res.ret = 1
                    THEN FALSE
                    ELSE IF call.op = "Generate" THEN TRUE ELSE genFailed
    /\ rt' = NoRT

Create ==
    /\ phase = "Uninitialized"
    /\ \E fail \in CreateFailures :
          LET res == rsaCreate(rsa, fail)
          IN  /\ rsa' = res.rsa
              /\ phase' = IF res.ret = 1 THEN "Created" ELSE "Failed"
              /\ last' = [Call("Create", rsa, res.ret, 0, FALSE, FALSE, fail = "none")
                           EXCEPT !.leak = res.leak]
              /\ UNCHANGED <<acq, genFailed, rt>>

Destroy ==
    /\ phase = "Created"
    /\ rsa' = rsaDestroy(rsa)
    /\ phase' = "Destroyed"
    /\ last' = Call("Destroy", rsa, 0, 0, FALSE, FALSE, FALSE)
    /\ rt' = NoRT
    /\ UNCHANGED <<acq, genFailed>>

Reset ==
    /\ phase = "Created"
    /\ Return(Res(rsaReset(rsa), 0), Call("Reset", rsa, 0, 0, FALSE, FALSE, FALSE))

ImportKey ==
    /\ phase = "Created"
    /\ \E file \in Files :
       LET got == PEMParsePrivate(file, Len(file))
       IN  \E allocFails \in (IF file \in ShortFiles THEN BOOLEAN ELSE {FALSE}) :
           \E ub \in UBIf(file # NoFile /\ ~HasKey(got)) :
              LET res == rsaImportKey(rsa, file, ~allocFails, ub)
              IN  Acquired(res, [Call("ImportKey", rsa, res.ret, 0, FALSE, file = NoFile,
                                      HasKey(got))
                                 EXCEPT !.chk = (RSA_check_key(got) = 1)],
                           got)

Generate ==
    /\ phase = "Created"
    /\ \E key_size \in KeySizes :
       \E id \in KeyIds(RSA_bytes(key_size)) :
       \E fail \in FailIf(key_size = 8 /\ id = 1, GenFailures) :
          LET res == rsaGenerate(rsa, key_size, id, fail)
          IN  Acquired(res, [Call("Generate", rsa, res.ret, key_size, FALSE, FALSE,
                                  fail = "none" /\ key_size > 0)
                             EXCEPT !.chk = (fail = "none" /\ key_size > 0)],
                       [len |-> RSA_bytes(key_size), id |-> id])

LoadDER ==
    /\ phase = "Created"
    /\ \E pubkey \in DERBufs :
       \E pubkey_size \in DERLens(pubkey) :
          LET got == DERParse(pubkey, pubkey_size)
              res == rsaLoadDER(rsa, pubkey, pubkey_size)
          IN  Acquired(res, Call("LoadDER", rsa, res.ret, pubkey_size, res.dec,
                                 pubkey = NullBuf, HasKey(got)),
                       got)

LoadPEM ==
    /\ phase = "Created"
    /\ \E pubkey \in PubPEMBufs :
       \E pubkey_size \in PEMLens(pubkey) :
          LET got == PEMParsePublic(pubkey, pubkey_size)
          IN  \E fail \in FailIf(ShortPEM(pubkey) /\ HasKey(got), PEMFailures) :
                 LET res == rsaLoadPEM(rsa, pubkey, pubkey_size, fail)
                 IN  Acquired(res, Call("LoadPEM", rsa, res.ret, 0, res.dec,
                                        pubkey = NullBuf, HasKey(got)),
                              got)

LoadPrivatePEM ==
    /\ phase = "Created"
    /\ \E privkey \in PrivPEMBufs :
       \E privkey_size \in PEMLens(privkey) :
          LET got == PEMParsePrivate(privkey, privkey_size)
          IN  \E fail \in FailIf(ShortPEM(privkey) /\ HasKey(got), PEMFailures) :
                 LET res == rsaLoadPrivatePEM(rsa, privkey, privkey_size, fail)
                 IN  Acquired(res, [Call("LoadPrivatePEM", rsa, res.ret, 0, res.dec,
                                         privkey = NullBuf, HasKey(got))
                                    EXCEPT !.chk = (RSA_check_key(got) = 1)],
                              got)

GetDERSize ==
    /\ phase = "Created"
    /\ \E ok \in {fail = "none" : fail \in FailIf(HasKey(rsa.key), {"none", "i2d_PublicKey"})},
          ub \in UBIf(rsa.key = NullKey) :
          LET res == rsaGetDERSize(rsa, ok, ub)
          IN  Return(res, Call("GetDERSize", rsa, res.ret, 0, FALSE, FALSE, FALSE))

GetDER ==
    /\ phase = "Created"
    /\ \E buf_size \in 0..MaxCap :
       \E fail \in FailIf(rsaGetDER(rsa, buf_size, TRUE, TRUE, "error").ret > 0, EncodeFailures),
          ub \in UBIf(rsa.key = NullKey) :
          LET ok1 == fail # "size"
              ok2 == fail # "encode"
              res == rsaGetDER(rsa, buf_size, ok1, ok2, ub)
          IN  Return(res, Call("GetDER", rsa, res.ret, buf_size, FALSE, FALSE, ok1 /\ ok2))

GetFingerprint ==
    /\ phase = "Created"
    /\ \E buf_size \in {SHA256_LEN - 1, SHA256_LEN} :
       \E fail \in FailIf(rsaGetFingerprint(rsa, buf_size, TRUE, TRUE, "error").ret > 0,
                         EncodeFailures),
          ub \in UBIf(rsa.key = NullKey) :
          LET ok1 == fail # "size"
              ok2 == fail # "encode"
              res == rsaGetFingerprint(rsa, buf_size, ok1, ok2, ub)
          IN  Return(res, Call("GetFingerprint", rsa, res.ret, 0, FALSE, FALSE, FALSE))

Sign ==
    /\ phase = "Created"
    /\ \E sign_len \in 0..MaxKeyLen :
       \E msg \in (IF sign_len = rsaSignSize(rsa) THEN Messages ELSE {1}) :
       \E fail \in FailIf(sign_len = rsaSignSize(rsa) /\ msg = 1, SignFailures),
          ub \in UBIf(rsa.key.kind = "pub") :
          LET res == rsaSign(rsa, sign_len, msg, fail, ub)
          IN  Return(res, Call("Sign", rsa, res.ret, sign_len, res.dec, FALSE,
                               fail = "none"))

Verify ==
    /\ phase = "Created"
    /\ \E sig \in SignaturesFor(rsa.key), msg \in Messages :
       \E fail \in FailIf(sig = BadSig, VerifyFailures) :
          LET res == rsaVerify(rsa, sig, msg, fail)
          IN  Return(res, Call("Verify", rsa, res.ret, 0, FALSE, FALSE,
                               fail = "none"))

ExportKey ==
    /\ phase = "Created"
    /\ \E fail \in ExportFailures :
       \E ub \in UBIf(fail = "BIO_new_file" \/ rsa.key.kind \notin {"priv", "badpriv"}) :
          LET openOk == fail # "BIO_new_file"
              writeOk == fail # "PEM_write_bio_PrivateKey"
              res == rsaExportKey(rsa, openOk, writeOk, ub)
          IN  Return(res, Call("ExportKey", rsa, res.ret, 0, FALSE, FALSE, fail = "none"))

Next ==
    \/ Create
    \/ Destroy
    \/ Reset
    \/ ImportKey
    \/ Generate
    \/ LoadDER
    \/ LoadPEM
    \/ LoadPrivatePEM
    \/ GetDERSize
    \/ GetDER
    \/ GetFingerprint
    \/ Sign
    \/ Verify
    \/ ExportKey

Spec == Init /\ [][Next]_vars

\* ------------------------------------------------------------- round trips
\* The public key travels to a peer: rsaGetDER with a buffer of buf_size
\* bytes, then rsaLoadDER of the bytes and the length returned on the
\* peer's object, then rsaGetFingerprint on both objects.
Transfer ==
    /\ phase = "Created"
    /\ \E buf_size \in 0..MaxCap, fp_size \in {SHA256_LEN - 1, SHA256_LEN} :
          LET der == rsaGetDER(rsa, buf_size, TRUE, TRUE, "error")
              load == rsaLoadDER(Peer, der.out, der.ret)
              fpK == rsaGetFingerprint(rsa, fp_size, TRUE, TRUE, "error")
              fpPeer == rsaGetFingerprint(load.rsa, fp_size, TRUE, TRUE, "error")
          IN  /\ der.ret > 0
              /\ rt' = [op |-> "Transfer", valid |-> rsaIsValid(rsa), n |-> der.ret,
                        load |-> load.ret, peer |-> Flags(load.rsa),
                        fpK |-> [ret |-> fpK.ret, out |-> fpK.out],
                        fpPeer |-> [ret |-> fpPeer.ret, out |-> fpPeer.out]]
              /\ last' = Call("Transfer", rsa, der.ret, buf_size, FALSE, FALSE, TRUE)
              /\ UNCHANGED <<rsa, phase, acq, genFailed>>

\* rsaSign of msg into a buffer of the maximum size, then rsaVerify of the
\* signature written against msg2, on the same object and digest context
SignVerify ==
    /\ phase = "Created"
    /\ \E msg \in Messages, msg2 \in Messages :
          LET sign == rsaSign(rsa, rsaSignSize(rsa), msg, "none", "error")
              verify == rsaVerify(sign.rsa, sign.out, msg2, "none")
          IN  /\ sign.ret > 0
              /\ rt' = [op |-> "SignVerify", kind |-> rsa.key.kind, same |-> (msg = msg2),
                        ctx |-> rsa.ctx, verified |-> verify.ret]
              /\ rsa' = verify.rsa
              /\ last' = Call("SignVerify", rsa, verify.ret, 0, FALSE, FALSE, TRUE)
              /\ UNCHANGED <<phase, acq, genFailed>>

\* the program that acquires keys, signs and verifies, and makes round trips
NextRT ==
    \/ Create
    \/ Reset
    \/ ImportKey
    \/ Generate
    \/ LoadDER
    \/ LoadPEM
    \/ LoadPrivatePEM
    \/ Sign
    \/ Verify
    \/ Transfer
    \/ SignVerify

SpecRT == Init /\ [][NextRT]_vars


\* ------------------------------------------------------------------ claims
AcquisitionOps == {"ImportKey", "Generate", "LoadDER", "LoadPEM", "LoadPrivatePEM"}
PublicLoads == {"LoadDER", "LoadPEM"}
PrivateLoads == {"ImportKey", "Generate", "LoadPrivatePEM"}
QueryOps == {"GetDERSize", "GetDER", "GetFingerprint", "Sign", "Verify", "ExportKey"}
\* size of the DER encoding of the public key held
EncodedSize(k) == Len(DERBytes(k))

\* C1: between rsaCreate and rsaDestroy, rsaIsPrivate = 1 implies
\* rsaIsValid = 1, whatever acquisitions and resets were called.
C1_PrivateImpliesValid ==
    phase = "Created" => (rsaIsPrivate(rsa) = 1 => rsaIsValid(rsa) = 1)

\* C2: when an acquisition has returned failure, isvalid is 0, whatever the
\* flags were when it was called.
C2_FailedAcquisitionInvalid ==
    (last.op \in AcquisitionOps /\ last.ret = 0) => rsaIsValid(rsa) = 0

\* C3: isvalid = 1 implies that rsa->key holds the public key of the most
\* recent successful acquisition.
C3_ValidHoldsAcquiredKey ==
    (phase = "Created" /\ rsaIsValid(rsa) = 1) => (HasKey(rsa.key) /\ Pub(rsa.key) = acq)

\* C4: from a failed rsaGenerate until an acquisition succeeds, isvalid is 0
\* and every rsaSign, rsaVerify and rsaGetDER returns 0.
C4_NothingAfterFailedGenerate ==
    genFailed =>
        /\ rsaIsValid(rsa) = 0
        /\ last.op \in {"Sign", "Verify", "GetDER"} => last.ret = 0

\* C5: rsaSign called with isprivate = 0 returns 0.
C5_SignOnlyWhenPrivate ==
    (last.op = "Sign" /\ last.pre.p = 0) => last.ret = 0

\* C6: rsaVerify, rsaGetDER and rsaGetFingerprint called with isvalid = 0
\* return 0.
C6_QueriesOnlyWhenValid ==
    (last.op \in {"Verify", "GetDER", "GetFingerprint"} /\ last.pre.v = 0) => last.ret = 0

\* C7: a successful rsaLoadDER or rsaLoadPEM leaves isvalid = 1 and
\* isprivate = 0; a successful rsaImportKey, rsaGenerate or rsaLoadPrivatePEM
\* leaves isvalid = 1 and isprivate = 1; whatever the flags were before.
C7_SuccessIsTabled ==
    /\ (last.op \in PublicLoads /\ last.ret = 1) => Flags(rsa) = [v |-> 1, p |-> 0]
    /\ (last.op \in PrivateLoads /\ last.ret = 1) => Flags(rsa) = [v |-> 1, p |-> 1]

\* C7 witness: rsaLoadDER succeeded on an object that held a private key
C7_Witness ==
    /\ last.op = "LoadDER" /\ last.ret = 1
    /\ last.pre = [v |-> 1, p |-> 1]

\* C8: for a key of encoded size s and capacity c, rsaGetDER returns 0 when
\* c <= s or s <= RSA_MINSIZE, and s when s > RSA_MINSIZE, c >= s + 1 and the
\* encoder succeeds.
C8_GetDERBounds ==
    (last.op = "GetDER" /\ HasKey(rsa.key)) =>
        LET s == EncodedSize(rsa.key)
            c == last.arg
        IN  /\ (c <= s \/ s <= RSA_MINSIZE) => last.ret = 0
            /\ (s > RSA_MINSIZE /\ c >= s + 1 /\ last.good) => last.ret = s

\* C8 witness: capacity s + 1 succeeded for a key of encoded size s
C8_Witness ==
    /\ last.op = "GetDER" /\ HasKey(rsa.key)
    /\ last.arg = EncodedSize(rsa.key) + 1
    /\ last.ret = EncodedSize(rsa.key)

\* C9: rsaLoadDER with a length <= RSA_MINSIZE or a NULL buffer returns 0
\* without invoking the decoder and leaves isvalid = 0.
C9_LoadDERRejectsShort ==
    (last.op = "LoadDER" /\ (last.arg <= RSA_MINSIZE \/ last.nul)) =>
        (last.ret = 0 /\ ~last.dec /\ rsaIsValid(rsa) = 0)

\* C9 witness: bytes that decode, of length RSA_MINSIZE, were rejected on an
\* object that was valid
C9_Witness ==
    /\ last.op = "LoadDER" /\ last.arg = RSA_MINSIZE /\ last.good /\ ~last.nul
    /\ last.pre.v = 1 /\ last.ret = 0

\* C10 as stated: rsaLoadDER succeeds only for a length strictly between
\* RSA_MINSIZE and RSA_MAXSIZE.
C10_LoadDERUpperBound ==
    (last.op = "LoadDER" /\ last.ret = 1) =>
        (last.arg > RSA_MINSIZE /\ last.arg < RSA_MAXSIZE)

\* C10 as amended: rsaLoadDER succeeds exactly when the length is greater
\* than RSA_MINSIZE, the buffer is not NULL and the bytes decode, and then
\* the object is valid; no upper bound applies to the length.
C10_LoadDERLowerBoundOnly ==
    last.op = "LoadDER" =>
        /\ last.ret = 1 <=> (last.arg > RSA_MINSIZE /\ ~last.nul /\ last.good)
        /\ last.ret = 1 => rsaIsValid(rsa) = 1

\* C10 witness: a length of RSA_MAXSIZE or more was accepted
C10_Witness ==
    last.op = "LoadDER" /\ last.ret = 1 /\ last.arg >= RSA_MAXSIZE

\* C11: for every valid key for which rsaGetDER returns n > 0 bytes,
\* rsaLoadDER of these n bytes on another, just created object returns 1 and
\* leaves it valid and not private, and rsaGetFingerprint gives the same
\* length and the same digest on both objects whenever it gives a digest on
\* either.
C11_DERRoundTrip ==
    (rt.op = "Transfer" /\ rt.valid = 1) =>
        /\ rt.load = 1
        /\ rt.peer = [v |-> 1, p |-> 0]
        /\ (rt.fpK.ret # 0 \/ rt.fpPeer.ret # 0) => rt.fpK = rt.fpPeer

\* C11 witness: the bytes of a valid key were loaded by the peer, and the
\* peer's fingerprint is the digest computed on the key's own object
C11_Witness ==
    /\ rt.op = "Transfer" /\ rt.valid = 1 /\ rt.load = 1
    /\ rt.fpK.ret = SHA256_LEN /\ rt.fpPeer = rt.fpK

\* C12: for a private key K and messages M, M2, rsaVerify of the signature
\* rsaSign wrote for M returns 1 against M and 0 against M2 # M, whatever
\* rsaSign and rsaVerify calls used the digest context before.
C12_SignVerifyRoundTrip ==
    (rt.op = "SignVerify" /\ rt.kind = "priv") =>
        rt.verified = (IF rt.same THEN 1 ELSE 0)

\* C12 witness: a signature was verified on a digest context that an
\* earlier call had left holding a message
C12_Witness ==
    /\ rt.op = "SignVerify" /\ rt.kind = "priv" /\ rt.same /\ rt.verified = 1
    /\ rt.ctx # EVP_DigestInit_ex

\* C13: rsaSign returns 0 without invoking a digest or signature primitive
\* when sign_len is smaller than rsaSignSize for the key held; when it
\* returns a length L # 0, then 0 < L <= rsaSignSize <= sign_len.
C13_SignCapacity ==
    last.op = "Sign" =>
        /\ last.arg < rsaSignSize(rsa) => (last.ret = 0 /\ ~last.dec)
        /\ last.ret # 0 =>
              (0 < last.ret /\ last.ret <= rsaSignSize(rsa) /\ rsaSignSize(rsa) <= last.arg)

\* C13 witness: a buffer one byte short was refused on an object holding a
\* private key, before any primitive ran
C13_Witness ==
    /\ last.op = "Sign" /\ rsa.key.kind = "priv"
    /\ last.arg = rsaSignSize(rsa) - 1
    /\ last.ret = 0 /\ ~last.dec

\* C14: when an allocation of rsaCreate fails, rsaCreate returns 0 and what
\* it had allocated is released: no BIGNUM and no EVP_PKEY stays allocated.
C14_CreateReleasesOnFailure ==
    (last.op = "Create" /\ ~last.good) =>
        /\ last.ret = 0
        /\ rsa.bn # "live" /\ rsa.kh # "live"
        /\ last.leak = {}

\* C15: between rsaCreate and rsaDestroy no call leaves an object it
\* allocated or replaced unreleased, rsa->key is never NULL, and after
\* rsaDestroy the EVP_PKEY, the BIGNUM and the digest context are each
\* released once.
C15_ReleasedExactlyOnce ==
    /\ phase = "Created" => (last.leak = {} /\ rsa.kh = "live" /\ rsa.key # NullKey)
    /\ phase = "Destroyed" => (rsa.kh = "freed" /\ rsa.bn = "freed" /\ rsa.md = "freed")

\* C16: rsaReset, in any state of the object, sets isvalid = 0 and
\* isprivate = 0 and changes nothing else: rsa->key and the key it holds,
\* rsa->bn, rsa->md and its content stay as they were.
C16_ResetKeepsResources ==
    [][last'.op = "Reset" =>
          /\ rsa'.isvalid = 0 /\ rsa'.isprivate = 0
          /\ rsa'.key = rsa.key /\ rsa'.kh = rsa.kh
          /\ rsa'.bn = rsa.bn /\ rsa'.md = rsa.md /\ rsa'.ctx = rsa.ctx]_vars

\* C16 witness: rsaReset was called on a valid object holding a private
\* key, and the key is still held
C16_Witness ==
    /\ last.op = "Reset" /\ last.pre = [v |-> 1, p |-> 1]
    /\ Flags(rsa) = [v |-> 0, p |-> 0]
    /\ rsa.key.kind = "priv" /\ rsa.kh = "live" /\ rsa.bn = "live" /\ rsa.md = "live"

\* C17: rsaImportKey, rsaGenerate and rsaLoadPrivatePEM return 1 only when
\* the key was read or generated and RSA_check_key passed it in that call,
\* and isprivate goes from 0 to 1 in no other call.
C17_PrivateOnlyAfterCheck ==
    /\ (last.op \in PrivateLoads /\ last.ret = 1) => (last.good /\ last.chk)
    /\ (phase # "Uninitialized" /\ last.pre.p = 0 /\ rsaIsPrivate(rsa) = 1) =>
          (last.op \in PrivateLoads /\ last.ret = 1 /\ last.good /\ last.chk)

\* C17 witness: rsaLoadPrivatePEM decoded a private key that RSA_check_key
\* does not pass, returned 0 and left isprivate = 0
C17_Witness ==
    /\ last.op = "LoadPrivatePEM" /\ last.good /\ ~last.chk
    /\ last.pre.p = 0 /\ last.ret = 0 /\ rsaIsPrivate(rsa) = 0

\* C18: rsaGetDERSize, rsaGetDER, rsaGetFingerprint, rsaSign, rsaVerify and
\* rsaExportKey, whatever they return, leave isvalid, isprivate and the key
\* held as they were; so the result of any rsaVerify call and of any
\* rsaGetFingerprint call is the same after them as before.
C18_QueriesChangeNothing ==
    [][last'.op \in QueryOps =>
          /\ Flags(rsa') = Flags(rsa)
          /\ rsa'.key = rsa.key
          /\ rsa' # rsa =>
                /\ \A sig \in SignaturesFor(rsa.key), msg \in Messages :
                      rsaVerify(rsa', sig, msg, "none").ret
                          = rsaVerify(rsa, sig, msg, "none").ret
                /\ \A buf_size \in {SHA256_LEN - 1, SHA256_LEN} :
                      LET before == rsaGetFingerprint(rsa, buf_size, TRUE, TRUE, "error")
                          after == rsaGetFingerprint(rsa', buf_size, TRUE, TRUE, "error")
                      IN  before.ret = after.ret /\ before.out = after.out]_vars

\* C18 witness: rsaVerify accepted a signature on a valid object holding a
\* private key and left a message in the digest context
C18_Witness ==
    /\ last.op = "Verify" /\ last.ret = 1
    /\ Flags(rsa) = [v |-> 1, p |-> 1] /\ rsa.key.kind = "priv"
    /\ rsa.ctx # EVP_DigestInit_ex

\* C19: rsaExportKey returns 0 when the path cannot be opened or the PEM
\* encoder fails, returns 1 only when both succeeded, and has released the
\* stream it opened whenever it returns.
C19_ExportReleasesStream ==
    last.op = "ExportKey" =>
        /\ ~last.good => last.ret = 0
        /\ last.ret = 1 => last.good
        /\ "BIO" \notin last.leak

====
